---------------------------- MODULE Spec2Model ----------------------------
(***************************************************************************)
(* A model of the maintenance commands of rssant_cli/rss.py: the offset    *)
(* repair (fix_user_story_offset), the unhealthy-feed deletion             *)
(* (delete_invalid_feeds), the proxy classification                        *)
(* (update_feed_use_proxy), the refresh scheduling (refresh_feed) and the  *)
(* per-feed aggregate recalculation commands.  One command runs per        *)
(* behaviour; cmd names it and pc is the position inside it.               *)
(***************************************************************************)
EXTENDS Integers, Sequences, FiniteSets, TLC

VARIABLES
    cmd,            \* the command this behaviour runs
    pc,             \* position inside the command
    err,            \* the exception that ended the run, "none" while there is none
    i,              \* index of the current loop iteration (1-based)
    raised_at,      \* the position at which the exception was raised, "none" while there is none
    \* ---- the Feed table
    feed_alive,     \* ids of the Feed rows in the store
    feed_use_proxy, \* feed id -> Feed.use_proxy as committed in the store
    \* ---- fix_user_story_offset
    us_row,         \* UserStory id -> [user, story]: the columns the command never writes
    story_offset,   \* Story id -> Story.offset
    us_offset,      \* UserStory id -> offset as seen inside the transaction
    us_committed,   \* UserStory id -> offset as committed in the store
    us_before,      \* UserStory id -> offset committed when the run started
    items,          \* the mismatch snapshot: sequence of [us_id, us_offset, story_offset]
    \* ---- delete_invalid_feeds
    raw_count,      \* feed id -> status code -> number of rawfeed rows inside the window
    limit,          \* --limit
    threshold,      \* --threshold
    retained,       \* the (feed, status) groups the error report returned
    error_feeds,    \* the sorted list of line 227
    delete_feed_ids,\* the list of line 230
    confirm_delete, \* what click.confirm returned, FALSE before it is asked
    \* ---- the --feeds option and the list of feed ids made from it
    opt_feeds,      \* --feeds: [kind: "none" | "all" | "ids", ids: the ids it lists]
    feed_ids,       \* the list the command iterates (lines 87, 97, 115, 373)
    \* ---- refresh_feed
    opt_union_feeds,\* --union-feeds: [kind: "none" | "ids", ids: the (user, feed) pairs it encodes]
    key_matches,    \* --key: [kind: "none" | "key", ids: the feeds whose url or title contains it]
    task_s,         \* the list of line 374
    submitted,      \* the batches handed to WorkerTask.bulk_save, in order
    worker_task,    \* dedup key -> the pending WorkerTask the queue holds under it
    task_before,    \* worker_task when the run started
    \* ---- update_feed_use_proxy
    rss_proxy_enable, \* CONFIG.rss_proxy_enable
    check_feeds,    \* the list of line 313: the feeds to check
    plain_status,   \* feed id -> status of its probe without proxy, for the feeds probed
    proxy_status,   \* feed id -> status of its probe with proxy, for the feeds probed so
    proxy_feeds,    \* the list of line 316
    probing,        \* the probes that were issued and have not returned
    probe_log,      \* every probe issued, in order: [feed, use_proxy]
    tx_use_proxy,   \* feed id -> Feed.use_proxy as seen inside the transaction
    use_proxy_before, \* feed id -> Feed.use_proxy committed when the run started
    written,        \* the feeds saved by the run, in order
    feed_title,     \* feed id -> the committed value of a column other than use_proxy
    tx_title,       \* feed id -> that column as the run's transaction wrote it
    obj_title,      \* that column in the Feed object refresh_from_db loaded, <<>> if none
    changed_feeds,  \* the feeds whose column another process changed during the run
    \* ---- the aggregate recalculation commands
    storys,         \* the Story rows: [feed, offset, dt_published]
    feed_row,       \* feed id -> the derived fields of the Feed row, as committed
    feed_tx,        \* feed id -> the derived fields as seen inside the transaction
    feed_before,    \* feed_row when the run started
    dry_run,        \* --dry-run
    incorrect_feeds,\* the list of line 69: <<feed_id, total_storys, correct_total_storys>>
    num_corrected,  \* the counter of line 76
    warned,         \* the feeds the warning of line 127 was logged for, in order
    feed_writes,    \* the feeds whose row the run wrote, one entry per write, in order
    run,            \* the number of the run of the command, from 1
    prev            \* how the previous run ended and the store it left

commonVars == <<cmd, pc, err, i, raised_at>>
offsetVars == <<us_row, story_offset, us_offset, us_committed, us_before, items>>
feedVars == <<feed_alive, feed_use_proxy>>
deleteVars == <<raw_count, limit, threshold, retained, error_feeds, delete_feed_ids,
                confirm_delete>>
optionVars == <<opt_feeds, feed_ids>>
refreshVars == <<opt_union_feeds, key_matches, task_s, submitted, worker_task, task_before>>
proxyVars == <<rss_proxy_enable, check_feeds, plain_status, proxy_status, proxy_feeds,
               probing, probe_log, tx_use_proxy, use_proxy_before, written,
               feed_title, tx_title, obj_title, changed_feeds>>
raceVars == <<feed_title, tx_title, obj_title, changed_feeds>>
aggVars == <<storys, feed_row, feed_tx, feed_before, dry_run, incorrect_feeds,
             num_corrected, warned, feed_writes, run, prev>>
vars == <<commonVars, feedVars, offsetVars, deleteVars, optionVars, refreshVars, proxyVars,
          aggVars>>

\* how often a command is run in one behaviour
MaxRuns == 2

(***************************************************************************)
(* Helpers                                                                 *)
(***************************************************************************)
Range(s) == {s[k] : k \in DOMAIN s}

\* every ordering of a finite set, as sequences without repetition
Perms(S) ==
    {s \in [1..Cardinality(S) -> S] : \A a, b \in 1..Cardinality(S) : a # b => s[a] # s[b]}

Min(a, b) == IF a < b THEN a ELSE b

\* the one sequence that lists the set S in the strict total order Before
SortedSeq(S, Before(_, _)) ==
    CHOOSE s \in Perms(S) : \A a, b \in 1..Cardinality(S) : a < b => Before(s[a], s[b])

\* the variables of the commands that do not run, at rest
OffsetIdle ==
    /\ us_row = <<>> /\ story_offset = <<>> /\ us_offset = <<>>
    /\ us_committed = <<>> /\ us_before = <<>> /\ items = <<>>

DeleteIdle ==
    /\ raw_count = <<>> /\ limit = 0 /\ threshold = 0
    /\ retained = {} /\ error_feeds = <<>> /\ delete_feed_ids = <<>>
    /\ confirm_delete = FALSE

NoOption == [kind |-> "none", ids |-> <<>>]

FeedIdle == feed_alive = {} /\ feed_use_proxy = <<>>

OptionIdle == opt_feeds = NoOption /\ feed_ids = <<>>

RefreshIdle ==
    /\ opt_union_feeds = NoOption /\ key_matches = NoOption
    /\ task_s = <<>> /\ submitted = <<>>
    /\ worker_task = <<>> /\ task_before = <<>>

ProxyIdle ==
    /\ rss_proxy_enable = FALSE /\ check_feeds = <<>> /\ plain_status = <<>>
    /\ proxy_status = <<>> /\ proxy_feeds = <<>> /\ probing = {} /\ probe_log = <<>>
    /\ tx_use_proxy = <<>> /\ use_proxy_before = <<>> /\ written = <<>>
    /\ feed_title = <<>> /\ tx_title = <<>> /\ obj_title = <<>> /\ changed_feeds = {}

NoPrev == [pc |-> "none", dry_run |-> FALSE, feed_row |-> <<>>, num_corrected |-> 0]

AggIdle ==
    /\ storys = {} /\ feed_row = <<>> /\ feed_tx = <<>> /\ feed_before = <<>>
    /\ dry_run = FALSE /\ incorrect_feeds = <<>> /\ num_corrected = 0
    /\ warned = <<>> /\ feed_writes = <<>> /\ run = 1 /\ prev = NoPrev

(***************************************************************************)
(* fix_user_story_offset                                                   *)
(***************************************************************************)
NumUserStory == 3
NumStory == 3

Users == {1, 2}
Storys == 1..NumStory
UserStorys == 1..NumUserStory

\* (user, feed, offset) is unique among UserStory rows; every story of the
\* model belongs to the one feed, so the scope of a row is its user.
UniqueOffsets(rows, offs) ==
    \A a, b \in DOMAIN rows :
        (a # b /\ rows[a].user = rows[b].user) => offs[a] # offs[b]

\* (user, story) is unique among UserStory rows.  The rows are numbered in
\* the order of (user, story): an id is only a label, and the order in which
\* the report returns the rows is chosen in Query.
UniqueUserStory(rows) ==
    \A a, b \in DOMAIN rows :
        a < b => \/ rows[a].user < rows[b].user
                 \/ (rows[a].user = rows[b].user /\ rows[a].story < rows[b].story)

\* the row set of the mismatch report: the join of UserStory with Story
\* where the two offsets differ
MismatchItems(rows, offs, soff) ==
    {[us_id |-> u, us_offset |-> offs[u], story_offset |-> soff[rows[u].story]] :
        u \in {x \in DOMAIN rows : offs[x] # soff[rows[x].story]}}

\* UPDATE ... SET offset = new WHERE id = us_id would break the uniqueness
\* constraint over (user, feed, offset)
ViolatesUnique(rows, offs, us_id, new) ==
    \E o \in DOMAIN rows :
        o # us_id /\ rows[o].user = rows[us_id].user /\ offs[o] = new

OffsetInit ==
    /\ cmd = "fix_user_story_offset"
    /\ pc = "query"
    /\ err = "none"
    /\ i = 1
    /\ raised_at = "none"
    /\ story_offset = [s \in Storys |-> s - 1]
    /\ us_row \in {r \in [UserStorys -> [user : Users, story : Storys]] :
                      UniqueUserStory(r)}
    /\ us_offset \in {o \in [UserStorys -> 0..(NumStory - 1)] :
                      UniqueOffsets(us_row, o)}
    /\ us_committed = us_offset
    /\ us_before = us_offset
    /\ items = <<>>
    /\ FeedIdle
    /\ DeleteIdle
    /\ OptionIdle
    /\ RefreshIdle
    /\ ProxyIdle
    /\ AggIdle

\* lines 254-261: run the report, keep its rows as a list, return when empty.
\* The report has no ORDER BY: the rows arrive in any order.
Query ==
    /\ cmd = "fix_user_story_offset" /\ pc = "query"
    /\ items' \in Perms(MismatchItems(us_row, us_offset, story_offset))
    /\ pc' = IF items' = <<>> THEN "done" ELSE "phaseA"
    /\ i' = 1
    /\ UNCHANGED <<cmd, err, raised_at, us_row, story_offset, us_offset, us_committed,
                   us_before>>
    /\ UNCHANGED <<feedVars, deleteVars, optionVars, refreshVars, proxyVars, aggVars>>

\* the value Phase A writes for a row of the snapshot (line 264)
PhaseAValue(item) == -item.us_offset

\* the value Phase B writes for a row of the snapshot (line 266)
PhaseBValue(item) == item.story_offset

\* leaving the atomic block on an exception: the transaction's writes are undone
RollbackKeepsWrites == us_committed' = us_offset /\ UNCHANGED us_offset
Rollback == us_offset' = us_committed /\ UNCHANGED us_committed

\* one UPDATE inside the transaction; the store rejects it when it would
\* break the uniqueness constraint, and the exception leaves the atomic block
UpdateOffset(us_id, new, nextpc) ==
    IF ViolatesUnique(us_row, us_offset, us_id, new)
    THEN /\ err' = "IntegrityError"
         /\ raised_at' = pc
         /\ pc' = "failed"
         /\ Rollback
         /\ UNCHANGED i
    ELSE /\ us_offset' = [us_offset EXCEPT ![us_id] = new]
         /\ pc' = nextpc
         /\ i' = IF i = Len(items) THEN 1 ELSE i + 1
         /\ UNCHANGED <<err, raised_at, us_committed>>

\* line 263-264
PhaseAWrite ==
    /\ cmd = "fix_user_story_offset" /\ pc = "phaseA"
    /\ UpdateOffset(items[i].us_id, PhaseAValue(items[i]),
                    IF i = Len(items) THEN "phaseB" ELSE "phaseA")
    /\ UNCHANGED <<cmd, us_row, story_offset, us_before, items>>
    /\ UNCHANGED <<feedVars, deleteVars, optionVars, refreshVars, proxyVars, aggVars>>

\* line 265-266
PhaseBWriteReversed ==
    /\ cmd = "fix_user_story_offset" /\ pc = "phaseB"
    /\ UpdateOffset(items[Len(items) + 1 - i].us_id, PhaseBValue(items[Len(items) + 1 - i]),
                    IF i = Len(items) THEN "commit" ELSE "phaseB")
    /\ UNCHANGED <<cmd, us_row, story_offset, us_before, items>>
    /\ UNCHANGED <<feedVars, deleteVars, optionVars, refreshVars, proxyVars, aggVars>>
PhaseBWrite ==
    /\ cmd = "fix_user_story_offset" /\ pc = "phaseB"
    /\ UpdateOffset(items[i].us_id, PhaseBValue(items[i]),
                    IF i = Len(items) THEN "commit" ELSE "phaseB")
    /\ UNCHANGED <<cmd, us_row, story_offset, us_before, items>>
    /\ UNCHANGED <<feedVars, deleteVars, optionVars, refreshVars, proxyVars, aggVars>>

\* a storage-level failure of the write that is due: the exception leaves
\* the atomic block of line 262
OffsetWriteFails ==
    /\ cmd = "fix_user_story_offset" /\ pc \in {"phaseA", "phaseB"}
    /\ err' = "DatabaseError"
    /\ raised_at' = pc
    /\ pc' = "failed"
    /\ Rollback
    /\ UNCHANGED <<cmd, i, us_row, story_offset, us_before, items>>
    /\ UNCHANGED <<feedVars, deleteVars, optionVars, refreshVars, proxyVars, aggVars>>

\* normal exit of the atomic block of line 262
OffsetCommit ==
    /\ cmd = "fix_user_story_offset" /\ pc = "commit"
    /\ us_committed' = us_offset
    /\ pc' = "done"
    /\ UNCHANGED <<cmd, err, i, raised_at, us_row, story_offset, us_offset, us_before,
                   items>>
    /\ UNCHANGED <<feedVars, deleteVars, optionVars, refreshVars, proxyVars, aggVars>>

OffsetNext == Query \/ PhaseAWrite \/ PhaseBWrite \/ OffsetWriteFails \/ OffsetCommit

SpecOffset == OffsetInit /\ [][OffsetNext]_vars

\* fix_user_story_offset is run again, over the store the earlier run left
OffsetAgain ==
    /\ cmd = "fix_user_story_offset" /\ pc \in {"done", "failed"}
    /\ run < MaxRuns
    /\ run' = run + 1
    /\ prev' = [NoPrev EXCEPT !.pc = pc]
    /\ pc' = "query"
    /\ err' = "none"
    /\ raised_at' = "none"
    /\ i' = 1
    /\ items' = <<>>
    /\ us_before' = us_committed
    /\ UNCHANGED <<cmd, us_row, story_offset, us_offset, us_committed>>
    /\ UNCHANGED <<storys, feed_row, feed_tx, feed_before, dry_run, incorrect_feeds,
                   num_corrected, warned, feed_writes>>
    /\ UNCHANGED <<feedVars, deleteVars, optionVars, refreshVars, proxyVars>>

SpecOffsetRuns == OffsetInit /\ [][OffsetNext \/ OffsetAgain]_vars

\* the rows of the snapshot hold their Story's offset in the committed store
ItemsRepaired ==
    \A k \in DOMAIN items :
        us_committed[items[k].us_id] = story_offset[us_row[items[k].us_id].story]

\* C1: starting from a store in which (user, feed, offset) is unique, the
\* two phases never run into the uniqueness constraint, and a finished run
\* leaves every row of the mismatch list at its Story's offset.
C1_CollisionFree ==
    /\ err # "IntegrityError"
    /\ (cmd = "fix_user_story_offset" /\ pc = "done") => ItemsRepaired

\* C2: when a write of either phase fails, the committed store is the store
\* of before the run; and a committed offset is never a value Phase A left
\* behind: it is the row's offset of before the run or its Story's offset.
C2_FailureRollsBack ==
    cmd = "fix_user_story_offset" =>
        /\ pc = "failed" => (us_committed = us_before /\ us_offset = us_before)
        /\ \A u \in UserStorys :
              us_committed[u] \in {us_before[u], story_offset[us_row[u].story]}

\* C2's case: Phase B failed after Phase A negated a positive offset and
\* Phase B had already settled a row
C2_Witness ==
    /\ cmd = "fix_user_story_offset" /\ pc = "failed" /\ raised_at = "phaseB"
    /\ i > 1
    /\ \E k \in DOMAIN items : items[k].us_offset > 0


(***************************************************************************)
(* delete_invalid_feeds                                                    *)
(***************************************************************************)
MaxCount == 5
DefaultLimit == 100
DefaultThreshold == 99
NoiseFilter == 3

Feeds == {1, 2}
ErrorStatusCodes == {-200, 404}
OkStatusCodes == {200}
StatusCodes == ErrorStatusCodes \cup OkStatusCodes
Limits == {1, 2, DefaultLimit}
Thresholds == {80, DefaultThreshold}

\* line 192: status_code < 200 or status_code >= 400
IsErrorStatus(status_code) == status_code < 200 \/ status_code >= 400

\* line 204: status_code >= 200 and status_code < 400
IsOkStatus(status_code) == status_code >= 200 /\ status_code < 400

\* FeedResponseStatus.name_of: the name of a status code
name_of(status_code) ==
    CASE status_code = 200 -> "OK"
      [] status_code = 404 -> "NOT_FOUND"
      [] status_code = -200 -> "FEED_CONNECTION_ERROR"
      [] OTHER -> "UNKNOWN"

\* lines 191-194: the (feed, status) groups of error fetches with count(1) > 3
ErrorGroups(rc) ==
    {g \in Feeds \X StatusCodes : IsErrorStatus(g[2]) /\ rc[g[1]][g[2]] > NoiseFilter}

\* lines 195-196: order by count desc limit %s.  Groups of equal count come
\* in any order, so any of them may be the ones the limit keeps.
RetainedSets(rc, lim) ==
    LET G == ErrorGroups(rc)
    IN  {R \in SUBSET G :
            /\ Cardinality(R) = Min(lim, Cardinality(G))
            /\ \A g \in R, h \in G \ R : rc[g[1]][g[2]] >= rc[h[1]][h[2]]}

\* line 200: order by feed_id, status_code, count
ReportRows(rc, R) ==
    LET Before(g, h) == g[1] < h[1] \/ (g[1] = h[1] /\ g[2] < h[2])
        s == SortedSeq(R, Before)
    IN  [k \in DOMAIN s |->
            [feed_id |-> s[k][1], status_code |-> s[k][2], count |-> rc[s[k][1]][s[k][2]]]]

\* dict[key] = value
Put(d, key, value) ==
    [x \in DOMAIN d \cup {key} |-> IF x = key THEN value ELSE d[x]]

\* sum(d.values())
RECURSIVE SumValues(_)
SumValues(d) ==
    IF DOMAIN d = {} THEN 0
    ELSE LET k == CHOOSE x \in DOMAIN d : TRUE
         IN  d[k] + SumValues([x \in DOMAIN d \ {k} |-> d[x]])

\* lines 212-220: the loop over the rows of the error report
RECURSIVE BuildErrorFeeds(_, _)
BuildErrorFeeds(rows, acc) ==
    IF rows = <<>> THEN acc
    ELSE LET r == Head(rows)
             old == IF r.feed_id \in DOMAIN acc THEN acc[r.feed_id].error ELSE <<>>
             error == Put(old, name_of(r.status_code), r.count)
             feed == [feed_id |-> r.feed_id, error |-> error,
                      error_count |-> SumValues(error),
                      ok_count |-> 0, error_percent |-> 100]
         IN  BuildErrorFeeds(Tail(rows), Put(acc, r.feed_id, feed))

\* lines 203-206: the ok report, one row per feed that has a success-range
\* fetch in the window, for the feeds named
OkRows(rc, ids) ==
    LET cnt(f) == SumValues([c \in {x \in StatusCodes : IsOkStatus(x)} |-> rc[f][c]])
    IN  {[feed_id |-> f, ok_count |-> cnt(f)] : f \in {x \in ids : cnt(x) > 0}}

\* Python's round() of the quotient num / den (den > 0): the nearest integer,
\* a tie going to the even one.  The source rounds the float
\* (error_count / total) * 100, which is this value for every total below 40
\* (23 errors of 40 give 57.49999999999999 and round to 57, not 58).
RoundFloor(num, den) == num \div den
round(num, den) ==
    LET q == num \div den
        r == num % den
    IN  IF 2 * r < den THEN q
        ELSE IF 2 * r > den THEN q + 1
        ELSE IF q % 2 = 0 THEN q ELSE q + 1

\* lines 224-225
ErrorPercentFloor(error_count, ok_count) ==
    RoundFloor(error_count * 100, error_count + ok_count)
ErrorPercent(error_count, ok_count) ==
    round(error_count * 100, error_count + ok_count)

\* lines 222-226: the loop over the rows of the ok report
ApplyOkRows(acc, okrows) ==
    [f \in DOMAIN acc |->
        IF \E r \in okrows : r.feed_id = f
        THEN LET r == CHOOSE x \in okrows : x.feed_id = f
             IN  [acc[f] EXCEPT !.ok_count = r.ok_count,
                                !.error_percent = ErrorPercent(acc[f].error_count, r.ok_count)]
        ELSE acc[f]]

\* lines 227-229: sorted by error_percent, the largest first; the sort is
\* stable and the dict lists the feeds in the order of the report, by feed_id
SortedErrorFeeds(acc) ==
    LET Before(a, b) == \/ a.error_percent > b.error_percent
                        \/ (a.error_percent = b.error_percent /\ a.feed_id < b.feed_id)
    IN  SortedSeq({acc[f] : f \in DOMAIN acc}, Before)

\* line 232
IsDeleteCandidateStrict(feed, thr) == feed.error_percent > thr
IsDeleteCandidate(feed, thr) == feed.error_percent >= thr

\* lines 230-234
DeleteFeedIds(efs, thr) ==
    LET sel == SelectSeq(efs, LAMBDA feed : IsDeleteCandidate(feed, thr))
    IN  [k \in DOMAIN sel |-> sel[k].feed_id]

DeleteInit ==
    /\ cmd = "delete_invalid_feeds"
    /\ pc = "classify"
    /\ err = "none"
    /\ i = 1
    /\ raised_at = "none"
    /\ raw_count \in [Feeds -> {rc \in [StatusCodes -> 0..MaxCount] :
                         \A c \in ErrorStatusCodes : rc[c] = 0 \/ rc[c] >= NoiseFilter}]
    /\ limit \in Limits
    /\ threshold \in Thresholds
    /\ feed_alive = Feeds
    /\ feed_use_proxy = [f \in Feeds |-> FALSE]
    /\ retained = {}
    /\ error_feeds = <<>>
    /\ delete_feed_ids = <<>>
    /\ confirm_delete = FALSE
    /\ OffsetIdle
    /\ OptionIdle
    /\ RefreshIdle
    /\ ProxyIdle
    /\ AggIdle

\* lines 208-234: the two reports, the error percent of every candidate, the
\* sorted list and the list of the feeds proposed for deletion
Classify ==
    /\ cmd = "delete_invalid_feeds" /\ pc = "classify"
    /\ \E R \in RetainedSets(raw_count, limit) :
        LET acc == BuildErrorFeeds(ReportRows(raw_count, R), <<>>)
            fin == ApplyOkRows(acc, OkRows(raw_count, DOMAIN acc))
        IN  /\ retained' = R
            /\ error_feeds' = SortedErrorFeeds(fin)
            /\ delete_feed_ids' = DeleteFeedIds(error_feeds', threshold)
    /\ pc' = IF delete_feed_ids' = <<>> THEN "done" ELSE "confirm"
    /\ UNCHANGED <<cmd, err, i, raised_at, raw_count, limit, threshold, feed_alive,
                   confirm_delete>>
    /\ UNCHANGED <<feed_use_proxy, offsetVars, optionVars, refreshVars, proxyVars, aggVars>>

\* line 236: the operator answers the one prompt
Confirm ==
    /\ cmd = "delete_invalid_feeds" /\ pc = "confirm"
    /\ confirm_delete' \in BOOLEAN
    /\ pc' = "decide"
    /\ UNCHANGED <<cmd, err, i, raised_at, raw_count, limit, threshold, feed_alive,
                   retained, error_feeds, delete_feed_ids>>
    /\ UNCHANGED <<feed_use_proxy, offsetVars, optionVars, refreshVars, proxyVars, aggVars>>

\* line 237: the deletion runs when the answer is yes
DeletesAnyway(answer) == TRUE
ShouldDelete(answer) == answer

\* UnionFeed.bulk_delete: the feeds named are removed together
bulk_delete(alive, ids) == alive \ Range(ids)

\* lines 239-241
BulkDelete ==
    /\ cmd = "delete_invalid_feeds" /\ pc = "decide"
    /\ ShouldDelete(confirm_delete)
    /\ feed_alive' = bulk_delete(feed_alive, delete_feed_ids)
    /\ pc' = "done"
    /\ UNCHANGED <<cmd, err, i, raised_at, raw_count, limit, threshold, retained,
                   error_feeds, delete_feed_ids, confirm_delete>>
    /\ UNCHANGED <<feed_use_proxy, offsetVars, optionVars, refreshVars, proxyVars, aggVars>>

\* lines 237-238
Abort ==
    /\ cmd = "delete_invalid_feeds" /\ pc = "decide"
    /\ ~ShouldDelete(confirm_delete)
    /\ pc' = "done"
    /\ UNCHANGED <<cmd, err, i, raised_at, raw_count, limit, threshold, feed_alive,
                   retained, error_feeds, delete_feed_ids, confirm_delete>>
    /\ UNCHANGED <<feed_use_proxy, offsetVars, optionVars, refreshVars, proxyVars, aggVars>>

DeleteNext == Classify \/ Confirm \/ BulkDelete \/ Abort

SpecDelete == DeleteInit /\ [][DeleteNext]_vars

\* C3: feeds are deleted only after the one confirmation returned true, and
\* then all the proposed feeds at once; a rejected run and a run that
\* proposes nothing leave the store as it was, and no run ends with a part
\* of the proposed feeds deleted.
C3_ConfirmGatesDeletion ==
    cmd = "delete_invalid_feeds" =>
        /\ feed_alive \in {Feeds, Feeds \ Range(delete_feed_ids)}
        /\ feed_alive # Feeds => (confirm_delete /\ pc = "done")
        /\ (pc = "done" /\ confirm_delete) =>
               feed_alive = Feeds \ Range(delete_feed_ids)
        /\ (pc = "done" /\ (~confirm_delete \/ delete_feed_ids = <<>>)) =>
               feed_alive = Feeds

\* C3's case: two feeds were proposed, the operator accepted and both are gone
C3_Witness ==
    /\ cmd = "delete_invalid_feeds" /\ pc = "done"
    /\ confirm_delete
    /\ Len(delete_feed_ids) = 2
    /\ feed_alive = {}

\* the sum of the window's counts over a set of (feed, status) groups
RECURSIVE GroupSum(_, _)
GroupSum(rc, G) ==
    IF G = {} THEN 0
    ELSE LET g == CHOOSE x \in G : TRUE
         IN  rc[g[1]][g[2]] + GroupSum(rc, G \ {g})

\* p is num / den rounded to the nearest integer, a tie going to the even one
IsRounded(p, num, den) ==
    LET d == IF num >= p * den THEN num - p * den ELSE p * den - num
    IN  2 * d <= den /\ (2 * d = den => p % 2 = 0)

MaxIds == 2
DefaultExpire == 1

\* the feed ids an operator may name; the store holds some of them
RefreshFeedIds == {1, 2, 12}
UnionFeedIds == {<<1, f>> : f \in RefreshFeedIds}

\* the sequences over S of length 1..n
SeqsUpTo(S, n) == UNION {[1..k -> S] : k \in 1..n}

\* str(n) for n >= 0, as the sequence of its decimal digits
RECURSIVE Decimal(_)
Decimal(n) ==
    LET digit == <<"0", "1", "2", "3", "4", "5", "6", "7", "8", "9">>
    IN  IF n < 10 THEN <<digit[n + 1]>>
        ELSE Decimal(n \div 10) \o <<digit[(n % 10) + 1]>>

\* line 42: unionid.decode(x)[1], the feed id of a decoded (user, feed) pair
DecodeUnionFeedIds(option) == [k \in DOMAIN option.ids |-> option.ids[k][2]]

\* lines 45-47: Feed.objects.only('id').all() names no order
GetAllFeedIds == Perms(feed_alive)

\* lines 50-55: the lists _get_feed_ids may return
GetFeedIds(option) ==
    IF option.kind # "none" /\ option.kind # "all" THEN {option.ids} ELSE GetAllFeedIds

\* sorted(list): insertion of each element at its place, duplicates kept
RECURSIVE SortedList(_)
SortedList(l) ==
    IF l = <<>> THEN <<>>
    ELSE LET rest == SortedList(Tail(l))
             lower == SelectSeq(rest, LAMBDA x : x < Head(l))
             upper == SelectSeq(rest, LAMBDA x : x >= Head(l))
         IN  lower \o <<Head(l)>> \o upper

\* line 373: list(sorted(set(feed_ids)))
SortedKeepsDuplicates(l) == SortedList(l)
SortedSet(l) == SortedSeq(Range(l), LAMBDA a, b : a < b)

\* lines 364-373: the ids of the three sources, in the order they are added
GatheredLists ==
    {a \o b \o c :
        a \in (IF opt_feeds.kind # "none" THEN GetFeedIds(opt_feeds) ELSE {<<>>}),
        b \in {IF opt_union_feeds.kind # "none"
               THEN DecodeUnionFeedIds(opt_union_feeds) ELSE <<>>},
        c \in (IF key_matches.kind # "none" THEN Perms(Range(key_matches.ids)) ELSE {<<>>})}

\* line 377
SyncFeedApi == "worker_rss.sync_feed"

\* line 380: f'{api}:{feed.id}'
TaskKeyWithPosition(api, feed_id) == <<api, ":">> \o Decimal(feed_id) \o <<"#">> \o Decimal(i)
TaskKey(api, feed_id) == <<api, ":">> \o Decimal(feed_id)

\* lines 378-389
MakeTask(feed_id) ==
    [api |-> SyncFeedApi,
     key |-> TaskKey(SyncFeedApi, feed_id),
     data |-> [feed_id |-> feed_id, use_proxy |-> feed_use_proxy[feed_id],
               is_refresh |-> TRUE],
     priority |-> "SYNC_FEED",
     expired_seconds |-> DefaultExpire * 60 * 60]

\* what --feeds, --union-feeds and --key may be
FeedsOptions ==
    {NoOption, [kind |-> "all", ids |-> <<>>]}
    \cup {[kind |-> "ids", ids |-> l] : l \in SeqsUpTo(RefreshFeedIds, MaxIds)}
UnionFeedsOptions ==
    {NoOption} \cup {[kind |-> "ids", ids |-> l] : l \in SeqsUpTo(UnionFeedIds, MaxIds)}
KeyMatches(alive) ==
    {NoOption} \cup {[kind |-> "key", ids |-> SortedSeq(m, LAMBDA a, b : a < b)] :
                        m \in SUBSET alive}

RefreshInit ==
    /\ cmd = "refresh_feed"
    /\ pc = "gather"
    /\ err = "none"
    /\ i = 1
    /\ raised_at = "none"
    /\ feed_alive \in {a \in SUBSET RefreshFeedIds : Cardinality(a) >= 2}
    /\ feed_use_proxy \in {[f \in feed_alive |-> b] : b \in BOOLEAN}
    /\ opt_feeds \in FeedsOptions
    /\ opt_union_feeds \in UnionFeedsOptions
    /\ key_matches \in KeyMatches(feed_alive)
    /\ feed_ids = <<>>
    /\ task_s = <<>>
    /\ submitted = <<>>
    /\ worker_task = <<>>
    /\ task_before = <<>>
    /\ OffsetIdle
    /\ DeleteIdle
    /\ ProxyIdle
    /\ AggIdle

\* lines 364-374
Gather ==
    /\ cmd = "refresh_feed" /\ pc = "gather"
    /\ \E l \in GatheredLists : feed_ids' = SortedSet(l)
    /\ task_s' = <<>>
    /\ i' = 1
    /\ pc' = IF feed_ids' = <<>> THEN "save" ELSE "build"
    /\ UNCHANGED <<cmd, err, raised_at, opt_feeds, opt_union_feeds, key_matches, submitted,
                   worker_task, task_before>>
    /\ UNCHANGED <<feedVars, offsetVars, deleteVars, proxyVars, aggVars>>

\* lines 375-390, one iteration whose feed row exists
BuildTask ==
    /\ cmd = "refresh_feed" /\ pc = "build"
    /\ feed_ids[i] \in feed_alive
    /\ task_s' = Append(task_s, MakeTask(feed_ids[i]))
    /\ i' = i + 1
    /\ pc' = IF i = Len(feed_ids) THEN "save" ELSE "build"
    /\ UNCHANGED <<cmd, err, raised_at, opt_feeds, opt_union_feeds, key_matches, feed_ids,
                   submitted, worker_task, task_before>>
    /\ UNCHANGED <<feedVars, offsetVars, deleteVars, proxyVars, aggVars>>

RefreshFeedMissingSkips ==
    /\ cmd = "refresh_feed" /\ pc = "build"
    /\ feed_ids[i] \notin feed_alive
    /\ i' = i + 1
    /\ pc' = IF i = Len(feed_ids) THEN "save" ELSE "build"
    /\ UNCHANGED <<cmd, err, raised_at, optionVars, refreshVars>>
    /\ UNCHANGED <<feedVars, offsetVars, deleteVars, proxyVars, aggVars>>

\* line 376: Feed.objects...get(pk=feed_id) finds no row and raises
\* Feed.DoesNotExist, which nothing catches
RefreshFeedMissing ==
    /\ cmd = "refresh_feed" /\ pc = "build"
    /\ feed_ids[i] \notin feed_alive
    /\ err' = "Feed.DoesNotExist"
    /\ raised_at' = pc
    /\ pc' = "failed"
    /\ UNCHANGED <<cmd, i, optionVars, refreshVars>>
    /\ UNCHANGED <<feedVars, offsetVars, deleteVars, proxyVars, aggVars>>

\* WorkerTask.bulk_save: each task is stored under its dedup key, in place
\* of the pending task the queue holds under that key, if any
RECURSIVE bulk_save(_, _)
bulk_save(queue, tasks) ==
    IF tasks = <<>> THEN queue
    ELSE bulk_save(Put(queue, Head(tasks).key, Head(tasks)), Tail(tasks))

\* line 391
BulkSave ==
    /\ cmd = "refresh_feed" /\ pc = "save"
    /\ submitted' = Append(submitted, task_s)
    /\ worker_task' = bulk_save(worker_task, task_s)
    /\ pc' = "done"
    /\ UNCHANGED <<cmd, err, i, raised_at, opt_feeds, opt_union_feeds, key_matches,
                   feed_ids, task_s, task_before>>
    /\ UNCHANGED <<feedVars, offsetVars, deleteVars, proxyVars, aggVars>>

RefreshNext == Gather \/ BuildTask \/ RefreshFeedMissing \/ BulkSave

\* the options of a later invocation: one of the three sources is given
OneSourceOptions(alive) ==
    {<<a, NoOption, NoOption>> : a \in FeedsOptions}
    \cup {<<NoOption, b, NoOption>> : b \in UnionFeedsOptions}
    \cup {<<NoOption, NoOption, c>> : c \in KeyMatches(alive)}

\* refresh_feed is invoked again while the tasks of the earlier invocations
\* are still pending
RefreshAgain ==
    /\ cmd = "refresh_feed" /\ pc \in {"done", "failed"}
    /\ run < MaxRuns
    /\ run' = run + 1
    /\ \E o \in OneSourceOptions(feed_alive) :
          /\ opt_feeds' = o[1]
          /\ opt_union_feeds' = o[2]
          /\ key_matches' = o[3]
    /\ pc' = "gather"
    /\ err' = "none"
    /\ raised_at' = "none"
    /\ i' = 1
    /\ feed_ids' = <<>>
    /\ task_s' = <<>>
    /\ submitted' = <<>>
    /\ task_before' = worker_task
    /\ UNCHANGED <<cmd, worker_task, storys, feed_row, feed_tx, feed_before, dry_run,
                   incorrect_feeds, num_corrected, warned, feed_writes, prev>>
    /\ UNCHANGED <<feedVars, offsetVars, deleteVars, proxyVars>>

SpecQueue == RefreshInit /\ [][RefreshNext \/ RefreshAgain]_vars

SpecRefresh == RefreshInit /\ [][RefreshNext]_vars

\* the feed ids the three sources of the run name
NamedFeedIds ==
    (IF opt_feeds.kind = "ids" THEN Range(opt_feeds.ids)
     ELSE IF opt_feeds.kind = "all" THEN feed_alive ELSE {})
    \cup (IF opt_union_feeds.kind = "ids"
          THEN {opt_union_feeds.ids[k][2] : k \in DOMAIN opt_union_feeds.ids} ELSE {})
    \cup (IF key_matches.kind = "key" THEN Range(key_matches.ids) ELSE {})

\* C5: whatever the three sources name, and however often, the batch handed
\* to WorkerTask.bulk_save holds exactly one task per distinct feed id, keyed
\* 'worker_rss.sync_feed:<feed id>', no two tasks share a key, and the tasks
\* are in ascending order of feed id.
C5_OneTaskPerFeed ==
    \A n \in DOMAIN submitted :
        LET batch == submitted[n]
        IN  /\ {batch[k].data.feed_id : k \in DOMAIN batch} = NamedFeedIds
            /\ Len(batch) = Cardinality(NamedFeedIds)
            /\ \A k \in DOMAIN batch :
                  batch[k].key = <<"worker_rss.sync_feed", ":">> \o Decimal(batch[k].data.feed_id)
            /\ \A a, b \in DOMAIN batch :
                  /\ a # b => batch[a].key # batch[b].key
                  /\ a < b => batch[a].data.feed_id < batch[b].data.feed_id

\* C5's case: a feed id named twice by --feeds and again by --union-feeds and
\* by --key, beside a second id, and the batch was handed over
C5_Witness ==
    /\ cmd = "refresh_feed" /\ pc = "done"
    /\ opt_feeds.kind = "ids" /\ opt_feeds.ids = <<12, 12>>
    /\ opt_union_feeds.kind = "ids" /\ opt_union_feeds.ids = <<<<1, 12>>, <<1, 2>>>>
    /\ key_matches.kind = "key" /\ 12 \in Range(key_matches.ids)
    /\ Len(submitted) = 1 /\ Len(submitted[1]) = 2

(***************************************************************************)
(* update_feed_use_proxy                                                   *)
(***************************************************************************)
NumProxyFeed == 2

ProxyFeedIds == 1..NumProxyFeed

\* the statuses a probe may return
ProbeStatuses == {200, 304, 403, 404, -200}

\* FeedResponseStatus.is_need_proxy: the failure classes a proxy may remedy
is_need_proxy(status) == status \in {403, -200}

\* line 327: proxy_status == 200
PromotesAnySuccess(status) == status >= 200 /\ status < 400
Promotes(status) == status = 200

ProxyInit ==
    /\ cmd = "update_feed_use_proxy"
    /\ pc = "start"
    /\ err = "none"
    /\ i = 1
    /\ raised_at = "none"
    /\ feed_alive = ProxyFeedIds
    /\ feed_use_proxy \in [ProxyFeedIds -> BOOLEAN]
    /\ rss_proxy_enable \in BOOLEAN
    /\ check_feeds = <<>>
    /\ plain_status = <<>>
    /\ proxy_status = <<>>
    /\ proxy_feeds = <<>>
    /\ probing = {}
    /\ probe_log = <<>>
    /\ tx_use_proxy = feed_use_proxy
    /\ use_proxy_before = feed_use_proxy
    /\ written = <<>>
    /\ feed_title = [f \in ProxyFeedIds |-> 0]
    /\ tx_title = <<>>
    /\ obj_title = <<>>
    /\ changed_feeds = {}
    /\ OffsetIdle
    /\ DeleteIdle
    /\ OptionIdle
    /\ RefreshIdle
    /\ AggIdle

\* lines 296-298
ProxyDisabled ==
    /\ cmd = "update_feed_use_proxy" /\ pc = "start"
    /\ ~rss_proxy_enable
    /\ pc' = "done"
    /\ UNCHANGED <<cmd, err, i, raised_at, proxyVars>>
    /\ UNCHANGED <<feedVars, offsetVars, deleteVars, optionVars, refreshVars, aggVars>>

\* lines 299-316: the feeds the query selects, in the order it returns them
SelectFeeds ==
    /\ cmd = "update_feed_use_proxy" /\ pc = "start"
    /\ rss_proxy_enable
    /\ \E chosen \in SUBSET feed_alive : check_feeds' \in Perms(chosen)
    /\ proxy_feeds' = <<>>
    /\ i' = 1
    /\ pc' = IF check_feeds' = <<>> THEN "report" ELSE "plain"
    /\ UNCHANGED <<cmd, err, raised_at, rss_proxy_enable, plain_status, proxy_status,
                   probing, probe_log, tx_use_proxy, use_proxy_before, written>>
    /\ UNCHANGED <<feedVars, offsetVars, deleteVars, optionVars, refreshVars, aggVars>>
    /\ UNCHANGED raceVars

\* the next position of the loop of line 318
NextFeed == IF i = Len(check_feeds) THEN "report" ELSE "plain"

\* line 320: reader.read(feed.url) is called
IssuePlainProbe ==
    /\ cmd = "update_feed_use_proxy" /\ pc = "plain"
    /\ probing' = probing \cup {[feed |-> check_feeds[i], use_proxy |-> FALSE]}
    /\ probe_log' = Append(probe_log, [feed |-> check_feeds[i], use_proxy |-> FALSE])
    /\ pc' = "plain_wait"
    /\ UNCHANGED <<cmd, err, i, raised_at, rss_proxy_enable, check_feeds, plain_status,
                   proxy_status, proxy_feeds, tx_use_proxy, use_proxy_before, written>>
    /\ UNCHANGED <<feedVars, offsetVars, deleteVars, optionVars, refreshVars, aggVars>>
    /\ UNCHANGED raceVars

\* lines 320-322: the probe returns its status
PlainProbeReturns ==
    /\ cmd = "update_feed_use_proxy" /\ pc = "plain_wait"
    /\ \E status \in ProbeStatuses :
        /\ plain_status' = Put(plain_status, check_feeds[i], status)
        /\ IF is_need_proxy(status)
           THEN pc' = "proxy" /\ UNCHANGED i
           ELSE pc' = NextFeed /\ i' = i + 1
    /\ probing' = probing \ {[feed |-> check_feeds[i], use_proxy |-> FALSE]}
    /\ UNCHANGED <<cmd, err, raised_at, rss_proxy_enable, check_feeds, proxy_status,
                   proxy_feeds, probe_log, tx_use_proxy, use_proxy_before, written>>
    /\ UNCHANGED <<feedVars, offsetVars, deleteVars, optionVars, refreshVars, aggVars>>
    /\ UNCHANGED raceVars

\* line 323: reader.read(feed.url, use_proxy=True) is called
IssueProxyProbe ==
    /\ cmd = "update_feed_use_proxy" /\ pc = "proxy"
    /\ probing' = probing \cup {[feed |-> check_feeds[i], use_proxy |-> TRUE]}
    /\ probe_log' = Append(probe_log, [feed |-> check_feeds[i], use_proxy |-> TRUE])
    /\ pc' = "proxy_wait"
    /\ UNCHANGED <<cmd, err, i, raised_at, rss_proxy_enable, check_feeds, plain_status,
                   proxy_status, proxy_feeds, tx_use_proxy, use_proxy_before, written>>
    /\ UNCHANGED <<feedVars, offsetVars, deleteVars, optionVars, refreshVars, aggVars>>
    /\ UNCHANGED raceVars

\* lines 323-328: the proxied probe returns its status
ProxyProbeReturnsAndSaves ==
    /\ cmd = "update_feed_use_proxy" /\ pc = "proxy_wait"
    /\ \E status \in ProbeStatuses :
        /\ proxy_status' = Put(proxy_status, check_feeds[i], status)
        /\ IF Promotes(status)
           THEN /\ proxy_feeds' = Append(proxy_feeds, check_feeds[i])
                /\ tx_use_proxy' = [tx_use_proxy EXCEPT ![check_feeds[i]] = TRUE]
                /\ written' = Append(written, check_feeds[i])
           ELSE UNCHANGED <<proxy_feeds, tx_use_proxy, written>>
    /\ probing' = probing \ {[feed |-> check_feeds[i], use_proxy |-> TRUE]}
    /\ pc' = NextFeed
    /\ i' = i + 1
    /\ UNCHANGED <<cmd, err, raised_at, rss_proxy_enable, check_feeds, plain_status,
                   probe_log, use_proxy_before>>
    /\ UNCHANGED <<feedVars, offsetVars, deleteVars, optionVars, refreshVars, aggVars>>
    /\ UNCHANGED raceVars
ProxyProbeReturns ==
    /\ cmd = "update_feed_use_proxy" /\ pc = "proxy_wait"
    /\ \E status \in ProbeStatuses :
        /\ proxy_status' = Put(proxy_status, check_feeds[i], status)
        /\ proxy_feeds' = IF Promotes(status)
                          THEN Append(proxy_feeds, check_feeds[i]) ELSE proxy_feeds
    /\ probing' = probing \ {[feed |-> check_feeds[i], use_proxy |-> TRUE]}
    /\ pc' = NextFeed
    /\ i' = i + 1
    /\ UNCHANGED <<cmd, err, raised_at, rss_proxy_enable, check_feeds, plain_status,
                   probe_log, tx_use_proxy, use_proxy_before, written>>
    /\ UNCHANGED <<feedVars, offsetVars, deleteVars, optionVars, refreshVars, aggVars>>
    /\ UNCHANGED raceVars

\* lines 329-331: nothing to write, or the atomic block is entered
Report ==
    /\ cmd = "update_feed_use_proxy" /\ pc = "report"
    /\ pc' = IF proxy_feeds = <<>> THEN "done" ELSE "write"
    /\ i' = 1
    /\ UNCHANGED <<cmd, err, raised_at, proxyVars>>
    /\ UNCHANGED <<feedVars, offsetVars, deleteVars, optionVars, refreshVars, aggVars>>

\* leaving the atomic block of line 331 on an exception
ProxyRollback ==
    /\ tx_use_proxy' = feed_use_proxy /\ tx_title' = <<>> /\ obj_title' = <<>>
    /\ UNCHANGED <<feed_use_proxy, feed_title, changed_feeds>>

\* lines 332-335, one iteration: the row is read again, flagged and saved
WriteUseProxy ==
    /\ cmd = "update_feed_use_proxy" /\ pc = "write"
    /\ tx_use_proxy' = [tx_use_proxy EXCEPT ![proxy_feeds[i]] = TRUE]
    /\ tx_title' = Put(tx_title, proxy_feeds[i], feed_title[proxy_feeds[i]])
    /\ written' = Append(written, proxy_feeds[i])
    /\ i' = i + 1
    /\ pc' = IF i = Len(proxy_feeds) THEN "commit" ELSE "write"
    /\ UNCHANGED <<feed_title, obj_title, changed_feeds>>
    /\ UNCHANGED <<cmd, err, raised_at, rss_proxy_enable, check_feeds, plain_status,
                   proxy_status, proxy_feeds, probing, probe_log, use_proxy_before>>
    /\ UNCHANGED <<feedVars, offsetVars, deleteVars, optionVars, refreshVars, aggVars>>

\* a storage-level failure of the iteration that is due
ProxyWriteFails ==
    /\ cmd = "update_feed_use_proxy" /\ pc \in {"write", "save"}
    /\ err' = "DatabaseError"
    /\ raised_at' = pc
    /\ pc' = "failed"
    /\ ProxyRollback
    /\ UNCHANGED <<cmd, i, feed_alive, rss_proxy_enable, check_feeds, plain_status,
                   proxy_status, proxy_feeds, probing, probe_log, use_proxy_before, written>>
    /\ UNCHANGED <<offsetVars, deleteVars, optionVars, refreshVars, aggVars>>

\* normal exit of the atomic block of line 331
ProxyCommit ==
    /\ cmd = "update_feed_use_proxy" /\ pc = "commit"
    /\ feed_use_proxy' = tx_use_proxy
    /\ feed_title' = [f \in DOMAIN feed_title |->
                         IF f \in DOMAIN tx_title THEN tx_title[f] ELSE feed_title[f]]
    /\ pc' = "done"
    /\ UNCHANGED <<cmd, err, i, raised_at, feed_alive, rss_proxy_enable, check_feeds,
                   plain_status, proxy_status, proxy_feeds, probing, probe_log,
                   tx_use_proxy, use_proxy_before, written, tx_title, obj_title,
                   changed_feeds>>
    /\ UNCHANGED <<offsetVars, deleteVars, optionVars, refreshVars, aggVars>>

ProxyNext ==
    \/ ProxyDisabled \/ SelectFeeds \/ IssuePlainProbe \/ PlainProbeReturns
    \/ IssueProxyProbe \/ ProxyProbeReturns \/ Report \/ WriteUseProxy
    \/ ProxyWriteFails \/ ProxyCommit

SpecProxy == ProxyInit /\ [][ProxyNext]_vars

\* line 333: the row is loaded from storage as it is committed now
RefreshFromDb ==
    /\ cmd = "update_feed_use_proxy" /\ pc = "write"
    /\ obj_title' = <<feed_title[proxy_feeds[i]]>>
    /\ pc' = "save"
    /\ UNCHANGED <<cmd, err, i, raised_at, rss_proxy_enable, check_feeds, plain_status,
                   proxy_status, proxy_feeds, probing, probe_log, tx_use_proxy,
                   use_proxy_before, written, feed_title, tx_title, changed_feeds>>
    /\ UNCHANGED <<feedVars, offsetVars, deleteVars, optionVars, refreshVars, aggVars>>

\* lines 334-335: the flag is set on the object and save() writes every
\* column of the object
SaveFeed ==
    /\ cmd = "update_feed_use_proxy" /\ pc = "save"
    /\ tx_use_proxy' = [tx_use_proxy EXCEPT ![proxy_feeds[i]] = TRUE]
    /\ tx_title' = Put(tx_title, proxy_feeds[i], obj_title[1])
    /\ obj_title' = <<>>
    /\ written' = Append(written, proxy_feeds[i])
    /\ i' = i + 1
    /\ pc' = IF i = Len(proxy_feeds) THEN "commit" ELSE "write"
    /\ UNCHANGED <<cmd, err, raised_at, rss_proxy_enable, check_feeds, plain_status,
                   proxy_status, proxy_feeds, probing, probe_log, use_proxy_before,
                   feed_title, changed_feeds>>
    /\ UNCHANGED <<feedVars, offsetVars, deleteVars, optionVars, refreshVars, aggVars>>

\* another process commits a change to the column of a feed while the
\* probes run or the write loop is in progress; a row the run's transaction
\* has written is locked until the transaction ends
ConcurrentChange ==
    /\ cmd = "update_feed_use_proxy"
    /\ pc \in {"plain", "plain_wait", "proxy", "proxy_wait", "report", "write", "save"}
    /\ \E f \in feed_alive :
          /\ feed_title[f] = 0
          /\ f \notin DOMAIN tx_title
          /\ feed_title' = [feed_title EXCEPT ![f] = 1]
          /\ changed_feeds' = changed_feeds \cup {f}
    /\ UNCHANGED <<cmd, pc, err, i, raised_at, rss_proxy_enable, check_feeds, plain_status,
                   proxy_status, proxy_feeds, probing, probe_log, tx_use_proxy,
                   use_proxy_before, written, tx_title, obj_title>>
    /\ UNCHANGED <<feedVars, offsetVars, deleteVars, optionVars, refreshVars, aggVars>>

SpecProxyRace ==
    ProxyInit /\ [][ProxyNext \/ RefreshFromDb \/ SaveFeed \/ ConcurrentChange]_vars

\* the candidates whose plain probe needed a proxy and whose proxied probe
\* returned 200
Promoted ==
    {f \in Range(check_feeds) :
        /\ f \in DOMAIN plain_status /\ plain_status[f] \in {403, -200}
        /\ f \in DOMAIN proxy_status /\ proxy_status[f] = 200}

\* every candidate has been probed, with the proxy too where its plain probe
\* asked for it, and no probe is outstanding
AllProbesDone ==
    /\ probing = {}
    /\ \A f \in Range(check_feeds) :
          /\ f \in DOMAIN plain_status
          /\ is_need_proxy(plain_status[f]) => f \in DOMAIN proxy_status

\* C6: the feeds the run marks use_proxy = True are exactly the candidates
\* whose plain probe returned a needs-proxy status and whose proxied probe
\* then returned 200; a feed that needs no proxy is never probed with the
\* proxy, and a feed that is not promoted keeps its use_proxy.
C6_ProxyPromotion ==
    cmd = "update_feed_use_proxy" =>
        /\ \A f \in DOMAIN proxy_status :
              f \in DOMAIN plain_status /\ is_need_proxy(plain_status[f])
        /\ \A k \in DOMAIN probe_log :
              probe_log[k].use_proxy =>
                  /\ probe_log[k].feed \in DOMAIN plain_status
                  /\ is_need_proxy(plain_status[probe_log[k].feed])
        /\ pc \in {"report", "write", "commit", "done", "failed"} =>
              Range(proxy_feeds) = Promoted
        /\ Range(written) \subseteq Promoted
        /\ pc = "done" =>
              /\ Range(written) = Promoted
              /\ \A f \in feed_alive :
                    feed_use_proxy[f] = (use_proxy_before[f] \/ f \in Promoted)

\* C6's case: one feed needed the proxy and its proxied probe returned 200,
\* so it is now marked; the other needed it too and its proxied probe
\* returned 304, so it is not
C6_Witness ==
    /\ cmd = "update_feed_use_proxy" /\ pc = "done"
    /\ \E f, g \in Range(check_feeds) :
          /\ plain_status[f] = 403 /\ f \in DOMAIN proxy_status /\ proxy_status[f] = 200
          /\ ~use_proxy_before[f] /\ feed_use_proxy[f]
          /\ plain_status[g] = -200 /\ g \in DOMAIN proxy_status /\ proxy_status[g] = 304
          /\ ~feed_use_proxy[g]

\* C10: no Feed row is written before every probe has returned; at most one
\* probe is outstanding; a proxied probe directly follows the plain probe of
\* the same feed; the plain probes follow the order of the list; and a probe
\* is issued only after every earlier probe has returned.
C10_WritesAfterProbes ==
    cmd = "update_feed_use_proxy" =>
        /\ Cardinality(probing) <= 1
        /\ (written # <<>> \/ tx_use_proxy # use_proxy_before
              \/ feed_use_proxy # use_proxy_before) => AllProbesDone
        /\ \A k \in DOMAIN probe_log :
              /\ probe_log[k].use_proxy =>
                    /\ k > 1
                    /\ probe_log[k - 1] = [feed |-> probe_log[k].feed, use_proxy |-> FALSE]
              /\ k < Len(probe_log) => probe_log[k] \notin probing
        /\ LET plain == SelectSeq(probe_log, LAMBDA p : ~p.use_proxy)
           IN  /\ Len(plain) <= Len(check_feeds)
               /\ \A k \in DOMAIN plain : plain[k].feed = check_feeds[k]

\* C10's case: two feeds were probed, both with the proxy too, and the first
\* row has been written
C10_Witness ==
    /\ cmd = "update_feed_use_proxy" /\ pc = "write"
    /\ Len(check_feeds) = 2 /\ Len(probe_log) = 4
    /\ Len(written) = 1

(***************************************************************************)
(* fix_feed_total_storys, update_feed_monthly_story_count,                 *)
(* update_feed_dryness, update_feed_dt_first_story_published               *)
(***************************************************************************)
MaxStory == 2

AggCommands ==
    {"fix_feed_total_storys", "update_feed_monthly_story_count",
     "update_feed_dryness", "update_feed_dt_first_story_published"}

\* the commands whose loop opens one transaction per feed (lines 90, 100, 118)
PerFeedCommands == AggCommands \ {"fix_feed_total_storys"}

\* the Feed rows of the store; the id 3 names no row
AggFeedIds == {1, 2}
AggIdLists == {<<2, 1>>, <<1, 3, 2>>}

\* the stories of a feed at the offsets O; 0 stands for no published time
StorysAt(f, O, d0) ==
    {[feed |-> f, offset |-> o, dt_published |-> IF o = 0 THEN d0 ELSE o + 1] : o \in O}

StorysOf(st, f) == {x \in st : x.feed = f}

\* the recomputed total_storys of a feed: the number of its stories
CountStorys(st, f) == Cardinality(StorysOf(st, f))

\* the histogram Story.refresh_feed_monthly_story_count rebuilds: the number
\* of stories per month of publication
MonthlyStoryCount(st, f) ==
    [m \in {x.dt_published : x \in StorysOf(st, f)} |->
        Cardinality({x \in StorysOf(st, f) : x.dt_published = m})]

\* a histogram that is not the one of any feed of the model
StaleMonthlyStoryCount == [m \in {9} |-> 1]

\* MonthlyStoryCount.dryness(): a score that falls as the histogram fills
dryness(monthly_story_count) ==
    LET n == SumValues(monthly_story_count)
    IN  IF n >= 2 THEN 0 ELSE IF n = 1 THEN 500 ELSE 1000

\* Story.query_feed_incorrect_total_storys: the feeds whose stored
\* total_storys is not the recomputed one
query_feed_incorrect_total_storys(st, rows) ==
    {<<f, rows[f].total_storys, CountStorys(st, f)>> :
        f \in {x \in DOMAIN rows : rows[x].total_storys # CountStorys(st, x)}}

\* Story.fix_feed_total_storys: recount, write when the count differs, and
\* report whether it wrote
fix_feed_total_storys(st, rows, f) ==
    [fixed |-> rows[f].total_storys # CountStorys(st, f),
     rows |-> [rows EXCEPT ![f].total_storys = CountStorys(st, f)]]

\* Story.refresh_feed_monthly_story_count
refresh_feed_monthly_story_count(st, rows, f) ==
    [rows EXCEPT ![f].monthly_story_count = MonthlyStoryCount(st, f)]

\* Story.get_by_offset(feed_id, 0, detail=True): the stories at offset 0
StoryAtOffset0(st, f) == {x \in StorysOf(st, f) : x.offset = 0}

\* the published time of the story at offset 0, 0 when there is none
FirstPublished(st, f) ==
    IF StoryAtOffset0(st, f) = {} THEN 0
    ELSE (CHOOSE x \in StoryAtOffset0(st, f) : TRUE).dt_published

\* the Feed rows a command may find, given the stories: the fields the
\* command neither reads nor writes are at the value the stories give
RowChoices(c, st, f) ==
    [total_storys : IF c = "update_feed_monthly_story_count"
                    THEN {CountStorys(st, f)} ELSE 0..MaxStory,
     monthly_story_count : IF c \in {"update_feed_monthly_story_count", "update_feed_dryness"}
                           THEN {<<>>, MonthlyStoryCount(st, f), StaleMonthlyStoryCount}
                           ELSE {MonthlyStoryCount(st, f)},
     dryness : IF c = "update_feed_dryness"
               THEN {0, 500} ELSE {dryness(MonthlyStoryCount(st, f))},
     dt_first_story_published : IF c = "update_feed_dt_first_story_published"
                                THEN {0, 1, 2} ELSE {FirstPublished(st, f)}]

AggInit ==
    /\ cmd \in AggCommands
    /\ pc = "start"
    /\ err = "none"
    /\ i = 1
    /\ raised_at = "none"
    /\ feed_alive = AggFeedIds
    /\ feed_use_proxy = [f \in AggFeedIds |-> FALSE]
    /\ \E d0 \in (IF cmd = "update_feed_dt_first_story_published" THEN {0, 1} ELSE {1}) :
         storys \in {StorysAt(1, a, d0) \cup StorysAt(2, b, 1) :
                        a \in SUBSET (0..(MaxStory - 1)), b \in SUBSET (0..(MaxStory - 1))}
    /\ feed_row \in {r \in [AggFeedIds -> UNION {RowChoices(cmd, storys, f) : f \in AggFeedIds}] :
                        \A f \in AggFeedIds : r[f] \in RowChoices(cmd, storys, f)}
    /\ feed_tx = feed_row
    /\ feed_before = feed_row
    /\ dry_run \in (IF cmd = "fix_feed_total_storys" THEN BOOLEAN ELSE {FALSE})
    /\ opt_feeds \in
         (IF cmd = "fix_feed_total_storys" THEN {NoOption}
          ELSE {[kind |-> "all", ids |-> <<>>]} \cup
               {[kind |-> "ids", ids |-> l] :
                   l \in {x \in AggIdLists : cmd = "update_feed_monthly_story_count"
                                                => Range(x) \subseteq AggFeedIds}})
    /\ feed_ids = <<>>
    /\ incorrect_feeds = <<>>
    /\ num_corrected = 0
    /\ warned = <<>>
    /\ feed_writes = <<>>
    /\ run = 1
    /\ prev = NoPrev
    /\ OffsetIdle
    /\ DeleteIdle
    /\ RefreshIdle
    /\ ProxyIdle

\* lines 69-76: the report of the incorrect feeds, which names no order; a
\* dry run returns, any other run enters the atomic block of line 75
SkipsWhenNotDryRun(flag) == ~flag
ReturnsBeforeWriting(flag) == flag

ListIncorrect ==
    /\ cmd = "fix_feed_total_storys" /\ pc = "start"
    /\ incorrect_feeds' \in Perms(query_feed_incorrect_total_storys(storys, feed_row))
    /\ num_corrected' = 0
    /\ i' = 1
    /\ feed_tx' = feed_row
    /\ pc' = IF ReturnsBeforeWriting(dry_run) THEN "done"
             ELSE IF incorrect_feeds' = <<>> THEN "commit" ELSE "fix"
    /\ UNCHANGED <<cmd, err, raised_at, storys, feed_row, feed_before, dry_run, warned,
                   feed_writes, run, prev>>
    /\ UNCHANGED <<feedVars, offsetVars, deleteVars, optionVars, refreshVars, proxyVars>>

\* lines 77-80, one iteration
FixOne ==
    /\ cmd = "fix_feed_total_storys" /\ pc = "fix"
    /\ LET res == fix_feed_total_storys(storys, feed_tx, incorrect_feeds[i][1])
       IN  /\ feed_tx' = res.rows
           /\ num_corrected' = IF res.fixed THEN num_corrected + 1 ELSE num_corrected
           /\ feed_writes' = IF res.fixed THEN Append(feed_writes, incorrect_feeds[i][1])
                             ELSE feed_writes
    /\ i' = i + 1
    /\ pc' = IF i = Len(incorrect_feeds) THEN "commit" ELSE "fix"
    /\ UNCHANGED <<cmd, err, raised_at, storys, feed_row, feed_before, dry_run,
                   incorrect_feeds, warned, run, prev>>
    /\ UNCHANGED <<feedVars, offsetVars, deleteVars, optionVars, refreshVars, proxyVars>>

\* leaving the atomic block of line 75 on an exception
FixRollbackKeepsWrites == feed_row' = feed_tx /\ UNCHANGED feed_tx
FixRollback == feed_tx' = feed_row /\ UNCHANGED feed_row

\* a storage-level failure of the iteration that is due
FixFails ==
    /\ cmd = "fix_feed_total_storys" /\ pc = "fix"
    /\ err' = "DatabaseError"
    /\ raised_at' = pc
    /\ pc' = "failed"
    /\ FixRollback
    /\ UNCHANGED <<cmd, i, storys, feed_before, dry_run, incorrect_feeds, num_corrected,
                   warned, feed_writes, run, prev>>
    /\ UNCHANGED <<feedVars, offsetVars, deleteVars, optionVars, refreshVars, proxyVars>>

\* line 81 and the normal exit of the atomic block of line 75
FixCommit ==
    /\ cmd = "fix_feed_total_storys" /\ pc = "commit"
    /\ feed_row' = feed_tx
    /\ pc' = "done"
    /\ UNCHANGED <<cmd, err, i, raised_at, storys, feed_tx, feed_before, dry_run,
                   incorrect_feeds, num_corrected, warned, feed_writes, run, prev>>
    /\ UNCHANGED <<feedVars, offsetVars, deleteVars, optionVars, refreshVars, proxyVars>>

\* lines 87-88, 97-98, 115-116
LoadFeedIds ==
    /\ cmd \in PerFeedCommands /\ pc = "start"
    /\ feed_ids' \in GetFeedIds(opt_feeds)
    /\ i' = 1
    /\ pc' = IF feed_ids' = <<>> THEN "done" ELSE "loop"
    /\ UNCHANGED <<cmd, err, raised_at, opt_feeds, aggVars>>
    /\ UNCHANGED <<feedVars, offsetVars, deleteVars, refreshVars, proxyVars>>

\* the end of an iteration that raised nothing: its transaction commits and
\* the loop goes on
NextIteration(rows) ==
    /\ feed_row' = rows
    /\ feed_tx' = rows
    /\ i' = i + 1
    /\ pc' = IF i = Len(feed_ids) THEN "done" ELSE "loop"

\* lines 90-91, one iteration
MonthlyIteration ==
    /\ cmd = "update_feed_monthly_story_count" /\ pc = "loop"
    /\ NextIteration(refresh_feed_monthly_story_count(storys, feed_row, feed_ids[i]))
    /\ feed_writes' = Append(feed_writes, feed_ids[i])
    /\ UNCHANGED <<cmd, err, raised_at, storys, feed_before, dry_run, incorrect_feeds,
                   num_corrected, warned, run, prev>>
    /\ UNCHANGED <<feedVars, offsetVars, deleteVars, optionVars, refreshVars, proxyVars>>

\* lines 102-109: the row update_feed_dryness leaves for a feed
DrynessRows(st, rows, f) ==
    IF rows[f].total_storys <= 0 THEN rows
    ELSE LET cnt == rows[f].monthly_story_count
             fresh == IF cnt = <<>> THEN refresh_feed_monthly_story_count(st, rows, f)
                      ELSE rows
         IN  [fresh EXCEPT ![f].dryness = dryness(fresh[f].monthly_story_count)]

\* lines 102-109: the writes update_feed_dryness issues for a feed: the
\* rebuilt histogram when the stored one is empty, then feed.save()
DrynessWritesOnChange(st, rows, f) ==
    IF DrynessRows(st, rows, f) = rows THEN <<>> ELSE <<f>>
DrynessWrites(st, rows, f) ==
    IF rows[f].total_storys <= 0 THEN <<>>
    ELSE (IF rows[f].monthly_story_count = <<>> THEN <<f>> ELSE <<>>) \o <<f>>

\* lines 100-109, one iteration whose feed row exists
DrynessIteration ==
    /\ cmd = "update_feed_dryness" /\ pc = "loop"
    /\ feed_ids[i] \in feed_alive
    /\ NextIteration(DrynessRows(storys, feed_row, feed_ids[i]))
    /\ feed_writes' = feed_writes \o DrynessWrites(storys, feed_row, feed_ids[i])
    /\ UNCHANGED <<cmd, err, raised_at, storys, feed_before, dry_run, incorrect_feeds,
                   num_corrected, warned, run, prev>>
    /\ UNCHANGED <<feedVars, offsetVars, deleteVars, optionVars, refreshVars, proxyVars>>

\* lines 120-128: the iteration ends without a write
BackfillOverwrites(st, rows, f) ==
    \/ rows[f].total_storys <= 0
    \/ StoryAtOffset0(st, f) = {}
BackfillSkips(st, rows, f) ==
    \/ rows[f].dt_first_story_published # 0
    \/ rows[f].total_storys <= 0
    \/ StoryAtOffset0(st, f) = {}

\* lines 124-128: Story.DoesNotExist is caught and the warning logged
BackfillWarns(st, rows, f) ==
    /\ rows[f].dt_first_story_published = 0
    /\ rows[f].total_storys > 0
    /\ StoryAtOffset0(st, f) = {}

\* lines 129-130
BackfillRows(st, rows, f) ==
    IF BackfillSkips(st, rows, f) THEN rows
    ELSE LET story == CHOOSE x \in StoryAtOffset0(st, f) : TRUE
         IN  [rows EXCEPT ![f].dt_first_story_published = story.dt_published]

\* lines 118-130, one iteration whose feed row exists
BackfillIteration ==
    /\ cmd = "update_feed_dt_first_story_published" /\ pc = "loop"
    /\ feed_ids[i] \in feed_alive
    /\ NextIteration(BackfillRows(storys, feed_row, feed_ids[i]))
    /\ feed_writes' = IF BackfillSkips(storys, feed_row, feed_ids[i]) THEN feed_writes
                      ELSE Append(feed_writes, feed_ids[i])
    /\ warned' = IF BackfillWarns(storys, feed_row, feed_ids[i])
                 THEN Append(warned, feed_ids[i]) ELSE warned
    /\ UNCHANGED <<cmd, err, raised_at, storys, feed_before, dry_run, incorrect_feeds,
                   num_corrected, run, prev>>
    /\ UNCHANGED <<feedVars, offsetVars, deleteVars, optionVars, refreshVars, proxyVars>>

\* lines 101 and 119: Feed.get_by_pk finds no row; the exception is not
\* caught, the iteration's transaction rolls back and the run ends
AggFeedMissing ==
    /\ cmd \in {"update_feed_dryness", "update_feed_dt_first_story_published"}
    /\ pc = "loop"
    /\ feed_ids[i] \notin feed_alive
    /\ err' = "Feed.DoesNotExist"
    /\ raised_at' = pc
    /\ pc' = "failed"
    /\ UNCHANGED <<cmd, i, aggVars>>
    /\ UNCHANGED <<feedVars, offsetVars, deleteVars, optionVars, refreshVars, proxyVars>>

\* a storage-level failure inside an iteration: the iteration's transaction
\* (lines 90, 100, 118) rolls back and the run ends
IterationRollback == UNCHANGED <<feed_row, feed_tx>>

IterationFails ==
    /\ cmd \in PerFeedCommands /\ pc = "loop"
    /\ feed_ids[i] \in feed_alive
    /\ err' = "DatabaseError"
    /\ raised_at' = pc
    /\ pc' = "failed"
    /\ IterationRollback
    /\ UNCHANGED <<cmd, i, storys, feed_before, dry_run, incorrect_feeds, num_corrected,
                   warned, feed_writes, run, prev>>
    /\ UNCHANGED <<feedVars, offsetVars, deleteVars, optionVars, refreshVars, proxyVars>>

\* the command is run again, over the same feeds and the same stories
Rerun ==
    /\ cmd \in AggCommands /\ pc \in {"done", "failed"}
    /\ run < MaxRuns
    /\ run' = run + 1
    /\ prev' = [pc |-> pc, dry_run |-> dry_run, feed_row |-> feed_row,
                 num_corrected |-> num_corrected]
    /\ dry_run' \in (IF cmd = "fix_feed_total_storys" THEN BOOLEAN ELSE {FALSE})
    /\ pc' = "start"
    /\ err' = "none"
    /\ raised_at' = "none"
    /\ i' = 1
    /\ feed_ids' = <<>>
    /\ incorrect_feeds' = <<>>
    /\ num_corrected' = 0
    /\ warned' = <<>>
    /\ feed_writes' = <<>>
    /\ feed_before' = feed_row
    /\ UNCHANGED <<cmd, opt_feeds, storys, feed_row, feed_tx>>
    /\ UNCHANGED <<feedVars, offsetVars, deleteVars, refreshVars, proxyVars>>

AggNext ==
    \/ ListIncorrect \/ FixOne \/ FixFails \/ FixCommit
    \/ LoadFeedIds \/ MonthlyIteration \/ DrynessIteration \/ BackfillIteration
    \/ AggFeedMissing \/ IterationFails \/ Rerun

SpecAgg == AggInit /\ [][AggNext]_vars

\* the loops that write Feed rows, and the lookups by id
SpecLoops == (AggInit \/ ProxyInit) /\ [][AggNext \/ ProxyNext]_vars
SpecLookups == (RefreshInit \/ AggInit) /\ [][RefreshNext \/ AggNext]_vars

\* C7: when a command of the aggregate group has completed a run that was
\* not a dry run and is run again over the same feeds and stories, the
\* second run of fix_feed_total_storys lists no incorrect feed and corrects
\* none, and every Feed row is, throughout and after the second run, the row
\* the first run left.
C7_Idempotent ==
    (cmd \in AggCommands /\ run >= 2 /\ prev.pc = "done" /\ ~prev.dry_run) =>
        /\ feed_row = prev.feed_row
        /\ pc = "done" => feed_tx = feed_row
        /\ cmd = "fix_feed_total_storys" =>
              /\ incorrect_feeds = <<>>
              /\ num_corrected = 0
              /\ query_feed_incorrect_total_storys(storys, feed_row) = {}

\* C7's case: the first run of fix_feed_total_storys corrected a feed, and
\* the second run, not a dry run either, has completed
C7_Witness ==
    /\ cmd = "fix_feed_total_storys" /\ run = 2 /\ pc = "done"
    /\ ~dry_run /\ ~prev.dry_run
    /\ prev.pc = "done" /\ prev.num_corrected > 0

\* the row an iteration of a per-feed loop leaves
ApplyIteration(c, st, rows, f) ==
    IF c = "update_feed_monthly_story_count" THEN refresh_feed_monthly_story_count(st, rows, f)
    ELSE IF c = "update_feed_dryness" THEN DrynessRows(st, rows, f)
    ELSE BackfillRows(st, rows, f)

RECURSIVE AfterIterations(_, _, _, _, _)
AfterIterations(c, st, rows, ids, k) ==
    IF k = 0 THEN rows
    ELSE ApplyIteration(c, st, AfterIterations(c, st, rows, ids, k - 1), ids[k])

RECURSIVE AfterFixes(_, _, _, _)
AfterFixes(st, rows, incorrect, k) ==
    IF k = 0 THEN rows
    ELSE fix_feed_total_storys(st, AfterFixes(st, rows, incorrect, k - 1), incorrect[k][1]).rows

\* when a per-feed loop ends in iteration i on an exception, the rows are
\* those the iterations 1..i-1 left
PerFeedLoopsKeepPriorIterations ==
    (cmd \in PerFeedCommands /\ pc = "failed") =>
        /\ feed_row = AfterIterations(cmd, storys, feed_before, feed_ids, i - 1)
        /\ feed_tx = feed_row

\* C8 as stated: in every loop, the two named ones included, a failure in
\* iteration k leaves the mutations of iterations 1..k-1 committed.
C8_Original ==
    /\ PerFeedLoopsKeepPriorIterations
    /\ (cmd = "fix_feed_total_storys" /\ pc = "failed") =>
          feed_row = AfterFixes(storys, feed_before, incorrect_feeds, i - 1)
    /\ (cmd = "update_feed_use_proxy" /\ pc = "failed") =>
          feed_use_proxy = [f \in DOMAIN use_proxy_before |->
                               use_proxy_before[f] \/ \E k \in 1..(i - 1) : proxy_feeds[k] = f]

\* C8: the per-feed loops of update_feed_monthly_story_count,
\* update_feed_dryness and update_feed_dt_first_story_published commit each
\* iteration on its own, so a failure in iteration k leaves iterations 1..k-1
\* committed; the correction loop of fix_feed_total_storys and the write loop
\* of update_feed_use_proxy each run inside one transaction, so a failure in
\* iteration k rolls back iterations 1..k-1 as well and the rows are those
\* the run found.
C8_TransactionScope ==
    /\ PerFeedLoopsKeepPriorIterations
    /\ (cmd = "fix_feed_total_storys" /\ pc = "failed") =>
          feed_row = feed_before /\ feed_tx = feed_before
    /\ (cmd = "update_feed_use_proxy" /\ pc = "failed") =>
          feed_use_proxy = use_proxy_before /\ tx_use_proxy = use_proxy_before

\* C8's case: the correction loop of fix_feed_total_storys failed in its
\* second iteration, after the first had corrected a feed
C8_Witness ==
    /\ cmd = "fix_feed_total_storys" /\ pc = "failed" /\ i = 2
    /\ AfterFixes(storys, feed_before, incorrect_feeds, 1) # feed_before

\* the commands that load a Feed row per id without catching a miss
FeedLookupCommands ==
    {"refresh_feed", "update_feed_dryness", "update_feed_dt_first_story_published"}

\* C9 as stated: a missing feed or story row never aborts the run.
C9_Original ==
    ~(pc = "failed" /\ err \in {"Feed.DoesNotExist", "Story.DoesNotExist"})

\* C9: only the missing offset-0 story of update_feed_dt_first_story_published
\* is skipped: a warning is logged for exactly the feeds that have stories
\* counted, no first-published time and no story at offset 0, and the batch
\* goes on.  A feed id without a row, in refresh_feed, update_feed_dryness or
\* update_feed_dt_first_story_published, raises Feed.DoesNotExist when its
\* turn comes and ends the run: no run completes over such an id, and
\* refresh_feed then submits no task at all.
C9_LookupMisses ==
    /\ err # "Story.DoesNotExist"
    /\ (cmd = "update_feed_dt_first_story_published" /\ pc \in {"loop", "done", "failed"}) =>
          warned = SelectSeq(SubSeq(feed_ids, 1, i - 1),
                             LAMBDA f : f \in feed_alive /\ BackfillWarns(storys, feed_row, f))
    /\ cmd \in FeedLookupCommands =>
          /\ pc = "done" => Range(feed_ids) \subseteq feed_alive
          /\ (pc = "failed" /\ err = "Feed.DoesNotExist") => feed_ids[i] \notin feed_alive
          /\ (pc \in {"build", "loop"} /\ feed_ids[i] \notin feed_alive) =>
                (ENABLED (RefreshFeedMissing \/ AggFeedMissing)
                   /\ ~ENABLED (BuildTask \/ DrynessIteration \/ BackfillIteration))
          /\ (cmd = "refresh_feed" /\ pc = "failed") => submitted = <<>>

\* C9's case: the first feed of the batch has no story at offset 0, the
\* warning was logged, and the run went on to the second feed and completed
C9_Witness ==
    /\ cmd = "update_feed_dt_first_story_published" /\ pc = "done"
    /\ Len(feed_ids) = 2
    /\ warned # <<>> /\ warned[1] = feed_ids[1]

\* C11: the list of the feeds proposed for deletion holds exactly the
\* candidates whose error_percent is at or above the threshold: a candidate
\* below it (98 against 99) is not in the list and is never deleted, a
\* candidate at or above it (99 against 99) is in the list.
C11_ThresholdGate ==
    /\ DeleteFeedIds(<<[feed_id |-> 1, error_percent |-> 99],
                       [feed_id |-> 2, error_percent |-> 98]>>, DefaultThreshold) = <<1>>
    /\ (cmd = "delete_invalid_feeds" /\ pc # "classify") =>
          /\ Range(delete_feed_ids) =
                {error_feeds[k].feed_id :
                    k \in {j \in DOMAIN error_feeds : error_feeds[j].error_percent >= threshold}}
          /\ Len(delete_feed_ids) = Cardinality(Range(delete_feed_ids))
          /\ \A f \in Feeds \ feed_alive :
                \E k \in DOMAIN error_feeds :
                    error_feeds[k].feed_id = f /\ error_feeds[k].error_percent >= threshold

\* C11's case: one candidate is exactly at the threshold and was deleted, the
\* other is below it and is still there
C11_Witness ==
    /\ cmd = "delete_invalid_feeds" /\ pc = "done" /\ confirm_delete
    /\ \E j, k \in DOMAIN error_feeds :
          /\ error_feeds[j].error_percent = threshold
          /\ error_feeds[j].feed_id \notin feed_alive
          /\ error_feeds[k].error_percent < threshold
          /\ error_feeds[k].feed_id \in feed_alive

\* the pending tasks of a feed for the api
LiveTasks(f) ==
    {k \in DOMAIN worker_task :
        worker_task[k].api = SyncFeedApi /\ worker_task[k].data.feed_id = f}

\* C12: with the queue storing tasks by dedup key, after any sequence of
\* refresh_feed invocations there is at most one pending task per feed for
\* 'worker_rss.sync_feed': a feed scheduled again has its pending task
\* replaced, never doubled, and the pending tasks of the other feeds stay.
C12_OneLiveTaskPerFeed ==
    cmd = "refresh_feed" =>
        /\ \A f \in RefreshFeedIds : Cardinality(LiveTasks(f)) <= 1
        /\ \A k \in DOMAIN task_before : k \in DOMAIN worker_task
        /\ pc = "done" =>
              \A n \in DOMAIN submitted : \A j \in DOMAIN submitted[n] :
                  LiveTasks(submitted[n][j].data.feed_id) = {submitted[n][j].key}

\* C12's case: a later invocation scheduled a feed that already had a
\* pending task, and a feed that had none
C12_Witness ==
    /\ cmd = "refresh_feed" /\ pc = "done" /\ run >= 2
    /\ \E n \in DOMAIN submitted : \E j, k \in DOMAIN submitted[n] :
          /\ submitted[n][j].key \in DOMAIN task_before
          /\ submitted[n][k].key \notin DOMAIN task_before

\* the derived fields of a feed agree with its stories
Agrees(st, rows, f) ==
    /\ rows[f].total_storys = CountStorys(st, f)
    /\ rows[f].monthly_story_count = MonthlyStoryCount(st, f)
    /\ rows[f].dryness = dryness(MonthlyStoryCount(st, f))
    /\ rows[f].dt_first_story_published = FirstPublished(st, f)

\* the run of an aggregate command started on a store without drift
NoDriftAtStart ==
    /\ cmd \in AggCommands
    /\ \A f \in DOMAIN feed_before : Agrees(storys, feed_before, f)

\* the feeds the loop has been through
Processed == SubSeq(feed_ids, 1, i - 1)

ListedFeeds == {incorrect_feeds[k][1] : k \in DOMAIN incorrect_feeds}

\* C14: fix_feed_total_storys lists exactly the feeds whose stored
\* total_storys differs from the recomputed count; a dry run writes nothing,
\* so the store after it is the store before it; any other run writes only
\* feeds of the list, and of them only total_storys.
C14_DryRunMutatesNothing ==
    cmd = "fix_feed_total_storys" =>
        /\ pc # "start" =>
              /\ ListedFeeds = {f \in DOMAIN feed_before :
                                   feed_before[f].total_storys # CountStorys(storys, f)}
              /\ \A k \in DOMAIN incorrect_feeds :
                    /\ incorrect_feeds[k][2] = feed_before[incorrect_feeds[k][1]].total_storys
                    /\ incorrect_feeds[k][3] = CountStorys(storys, incorrect_feeds[k][1])
        /\ dry_run =>
              /\ feed_row = feed_before /\ feed_tx = feed_before
              /\ feed_writes = <<>> /\ num_corrected = 0
              /\ pc \in {"start", "done"}
        /\ Range(feed_writes) \subseteq ListedFeeds
        /\ \A f \in DOMAIN feed_row :
              /\ f \notin ListedFeeds => (feed_row[f] = feed_before[f] /\ feed_tx[f] = feed_before[f])
              /\ feed_row[f] = [feed_before[f] EXCEPT !.total_storys = feed_row[f].total_storys]

\* C14's case: a dry run listed two incorrect feeds and ended
C14_Witness ==
    /\ cmd = "fix_feed_total_storys" /\ pc = "done" /\ dry_run
    /\ Len(incorrect_feeds) = 2
    /\ feed_row = feed_before

\* a run that found no mismatched row wrote nothing, and a run that follows
\* a completed run finds none
SecondRunIsNoOp ==
    cmd = "fix_user_story_offset" =>
        /\ (run >= 2 /\ prev.pc = "done" /\ pc # "query") => items = <<>>
        /\ items = <<>> =>
              /\ pc \in {"query", "done"}
              /\ us_committed = us_before /\ us_offset = us_before

\* a run that follows a failed run works on the mismatches of the store as
\* it finds it
RerunRecomputes ==
    (cmd = "fix_user_story_offset" /\ run >= 2 /\ prev.pc = "failed" /\ pc # "query") =>
        Range(items) = MismatchItems(us_row, us_before, story_offset)

\* C15: after a completed run a second run finds no mismatched row; a run
\* that finds none opens no transaction and writes nothing; a run started
\* after a failed run recomputes the mismatch list from the store as it is
\* and repairs it: it does not run into the uniqueness constraint, and when
\* it ends no row is mismatched.
C15_Idempotent ==
    /\ SecondRunIsNoOp
    /\ RerunRecomputes
    /\ (cmd = "fix_user_story_offset" /\ run >= 2 /\ prev.pc = "failed") =>
          /\ err # "IntegrityError"
          /\ pc = "done" => MismatchItems(us_row, us_committed, story_offset) = {}

\* Phase A has written every row of the snapshot and Phase B none
BetweenPhases == cmd = "fix_user_story_offset" /\ pc = "phaseB" /\ i = 1

\* C16: between the end of Phase A and the start of Phase B every row of the
\* mismatch list holds a negative offset, so none of them holds a value
\* Phase B is about to write; for every mismatch list, a row at offset 0
\* included.
C16_NegativeBetweenPhases ==
    BetweenPhases =>
        \A k \in DOMAIN items :
            /\ us_offset[items[k].us_id] < 0
            /\ \A j \in DOMAIN items : us_offset[items[k].us_id] # items[j].story_offset

\* the feed's field is unset, it has stories counted and a story at offset 0
Backfillable(st, rows, f) ==
    /\ rows[f].dt_first_story_published = 0
    /\ rows[f].total_storys > 0
    /\ StoryAtOffset0(st, f) # {}

\* C17: update_feed_dt_first_story_published writes a feed's
\* dt_first_story_published only when the field is unset, total_storys > 0
\* and a story at offset 0 exists, and then writes that story's published
\* time and nothing else; a value already set is never overwritten; a feed
\* whose offset-0 story is absent is left as it was, the warning is logged
\* and the run does not end there.
C17_BackfillOnlyWhenUnset ==
    cmd = "update_feed_dt_first_story_published" =>
        /\ err # "Story.DoesNotExist"
        /\ \A f \in DOMAIN feed_row :
              /\ feed_before[f].dt_first_story_published # 0 => feed_row[f] = feed_before[f]
              /\ f \in Range(feed_writes) <=>
                    (f \in Range(Processed) /\ Backfillable(storys, feed_before, f))
              /\ f \in Range(feed_writes) =>
                    feed_row[f] = [feed_before[f] EXCEPT
                                      !.dt_first_story_published = FirstPublished(storys, f)]
              /\ f \notin Range(feed_writes) => feed_row[f] = feed_before[f]
              /\ f \in Range(warned) =>
                    (StoryAtOffset0(storys, f) = {} /\ feed_row[f] = feed_before[f])
        /\ Len(warned) + Len(feed_writes) <= Len(Processed)

\* C17's case: the first feed has no story at offset 0 and was left alone,
\* the second was unset and now holds the published time of its offset-0
\* story, and the run completed
C17_Witness ==
    /\ cmd = "update_feed_dt_first_story_published" /\ pc = "done"
    /\ Len(feed_ids) = 2
    /\ warned = <<feed_ids[1]>>
    /\ feed_writes = <<feed_ids[2]>>
    /\ feed_before[feed_ids[2]].dt_first_story_published = 0
    /\ feed_row[feed_ids[2]].dt_first_story_published = 1

\* C18: a change another process commits to a column other than use_proxy
\* of a feed, while the probes run or while the write loop is in progress,
\* is not lost: when the run has ended, every feed it wrote has
\* use_proxy = True and holds the concurrent change.
C18_NoLostUpdate ==
    (cmd = "update_feed_use_proxy" /\ pc = "done") =>
        \A f \in Range(written) :
            /\ feed_use_proxy[f]
            /\ f \in changed_feeds => feed_title[f] = 1

\* the UserStory rows of the snapshot
SnapshotIds == {items[k].us_id : k \in DOMAIN items}

\* C19: fix_user_story_offset writes nothing but the offset of the
\* UserStory rows of the snapshot taken at the start: the list is fixed once
\* taken, the write of position i of either phase goes to the row at
\* position i of the list, no Story.offset and no other UserStory column is
\* written, and a row that is not in the snapshot keeps its offset.
C19_OnlySnapshotRows ==
    [][cmd = "fix_user_story_offset" =>
          /\ UNCHANGED <<us_row, story_offset, us_before>>
          /\ pc # "query" => items' = items
          /\ pc = "query" => Range(items') = MismatchItems(us_row, us_before, story_offset)
          /\ \A u \in UserStorys :
                /\ u \notin SnapshotIds' =>
                      (us_offset'[u] = us_before[u] /\ us_committed'[u] = us_before[u])
                /\ (pc' # "failed" /\ us_offset'[u] # us_offset[u]) =>
                      (pc \in {"phaseA", "phaseB"} /\ u = items[i].us_id)
          /\ (pc \in {"phaseA", "phaseB"} /\ pc' \notin {"failed", pc}) => i = Len(items)
      ]_vars

\* C19's case: two of the three rows were in the snapshot and were repaired,
\* the third was not and is as before
C19_Witness ==
    /\ cmd = "fix_user_story_offset" /\ pc = "done"
    /\ Len(items) = 2
    /\ \A k \in DOMAIN items : us_committed[items[k].us_id] # us_before[items[k].us_id]
    /\ \E u \in UserStorys : u \notin SnapshotIds /\ us_committed[u] = us_before[u]

=============================================================================
